---- MODULE Spec2Model ----
(***************************************************************************)
(* Model of the obsidian-transcription-plugin:                             *)
(*   - ModelManager (src/src/services/ModelManager.ts, first revision in   *)
(*     the file): downloadModel / downloadModelAttempt /                   *)
(*     downloadWithRedirects and the ModelDownloadModal cancel button;     *)
(*   - TranscriptionService.transcribe (src/unnamed/part_007) with the     *)
(*     local / cloud / OpenRouter processors and the progress modal.       *)
(*                                                                         *)
(* One action is one JavaScript turn: the code that runs from the event    *)
(* that resumes it (a timer, a network event, a click) up to the next      *)
(* await of something that is not yet settled.                             *)
(*                                                                         *)
(* File system: POSIX semantics. unlink removes the path at once; a write  *)
(* stream that still holds the file goes on writing to the orphaned file   *)
(* and never re-creates the path.                                          *)
(***************************************************************************)
EXTENDS Integers, Sequences, FiniteSets, TLC

\* ------------------------------------------------------------------ bounds
NumCalls == 2        \* concurrent downloadModel invocations
TotalSize == 2       \* chunks in a complete model file

\* ------------------------------------------------------- program constants
MaxRetries == 2      \* downloadModel(maxRetries = 2)
MoveRetries == 3     \* let retries = 3
MaxRedirects == 5    \* downloadWithRedirects(maxRedirects = 5)

ModelSizes == {"base"}
Calls == 1..NumCalls

\* ------------------------------------------------------------ file system
ModelPath(s) == "ggml-" \o s \o ".bin"

\* const tempPath = `${modelPath}.download`
TempPath(s) == ModelPath(s) \o ".download"

Paths == {ModelPath(s) : s \in ModelSizes} \cup {ModelPath(s) \o ".download" : s \in ModelSizes}

Chunks == 1..TotalSize

\* A file is the set of chunk positions that hold data; truncation empties it.
NoFile == [exists |-> FALSE, chunks |-> {}, origin |-> "none"]
NewFile == [exists |-> TRUE, chunks |-> {}, origin |-> "download"]
PriorModel == [exists |-> TRUE, chunks |-> Chunks, origin |-> "prior"]

IsComplete(f) == f.exists /\ f.chunks = Chunks

\* ----------------------------------------------------------------- errors
ErrAlreadyInProgress == "Download of model is already in progress"
ErrCannotReach == "Cannot reach Hugging Face servers"
ErrRedirectNoLocation == "Redirect without location"
ErrTooManyRedirects == "Too many redirects"
ErrHttp404 == "HTTP 404: Not Found"
ErrConnTimeout == "Connection timeout - unable to reach server"
ErrStalled == "Download stalled - no data received"
ErrConnReset == "ECONNRESET"
ErrNoSpace == "ENOSPC"
ErrFinalize == "Failed to finalize download"
ErrCancelled == "Download cancelled by user"

VARIABLES
    fs,                  \* path -> file
    downloadsInProgress, \* ModelManager.downloadsInProgress
    dl,                  \* call -> state of one downloadModel invocation
    staleModals,         \* sizes with a finished attempt's modal still open
    orphans              \* size -> transfer still running after its attempt was rejected

dlvars == <<fs, downloadsInProgress, dl, staleModals, orphans>>

VARIABLES
    settings,            \* plugin.settings and the installed whisper binary
    job,                 \* job -> state of one TranscriptionService.transcribe call
    currentProcess,      \* LocalWhisperProcessor.currentProcess (owner job, or 0)
    tempWavs,            \* temp wav path -> job whose conversion created the file, or 0
    recordLog,           \* every entry given to addToRecentTranscriptions, newest first
    vaultDoc,            \* markdown path -> the document of the vault at that path
    parse                \* an engine output and the TranscriptionResult parsed from it

jobvars == <<settings, job, currentProcess, tempWavs, recordLog, vaultDoc, parse>>

vars == <<fs, downloadsInProgress, dl, staleModals, orphans, settings, job,
          currentProcess, tempWavs, recordLog, vaultDoc, parse>>

IdleCall ==
    [size |-> "none", pc |-> "idle", attempt |-> 0,
     downloadCancelled |-> FALSE, request |-> "null", writeStream |-> "null",
     link |-> "none", received |-> 0, redirectCount |-> 0, staleTimer |-> FALSE,
     retries |-> 0, modalOpen |-> FALSE, outcome |-> "none", lastError |-> "none",
     userCancelled |-> FALSE, startedWhileBusy |-> FALSE,
     installedAtStart |-> FALSE, probe |-> "none"]

NoOrphan == [st |-> "none", received |-> 0, link |-> "none"]

\* The variables as one value, so that the helpers below compose.
World ==
    [fs |-> fs, inprog |-> downloadsInProgress, dl |-> dl,
     stale |-> staleModals, orphans |-> orphans]

Commit(w) ==
    /\ fs' = w.fs
    /\ downloadsInProgress' = w.inprog
    /\ dl' = w.dl
    /\ staleModals' = w.stale
    /\ orphans' = w.orphans
    /\ UNCHANGED jobvars

\* checkModelExists(modelSize): fs.existsSync(modelPath)
checkModelExists(s) == fs[ModelPath(s)].exists

\* error.message.includes('cancelled')
IsCancellationNever(msg) == FALSE

IsCancellation(msg) == msg \in {ErrCancelled}

\* fs.unlinkSync(p): the path disappears; streams holding the file keep
\* writing to a file that no path names any more.
unlinkSync(w, p) ==
    [w EXCEPT
       !.fs[p] = NoFile,
       !.dl = [c \in Calls |->
                 IF w.dl[c].link = p THEN [w.dl[c] EXCEPT !.link = "none"] ELSE w.dl[c]],
       !.orphans = [s \in ModelSizes |->
                 IF w.orphans[s].link = p THEN [w.orphans[s] EXCEPT !.link = "none"]
                 ELSE w.orphans[s]]]

\* if (fs.existsSync(p)) fs.unlinkSync(p)
unlinkIfExists(w, p) == IF w.fs[p].exists THEN unlinkSync(w, p) ELSE w

\* fs.renameSync(from, to): the file moves, with the streams that hold it;
\* a file that was at `to` loses its path.
renameSync(w, from, to) ==
    LET Relink(l) == IF l = from THEN to ELSE IF l = to THEN "none" ELSE l
    IN [w EXCEPT
          !.fs[to] = w.fs[from],
          !.fs[from] = NoFile,
          !.dl = [c \in Calls |-> [w.dl[c] EXCEPT !.link = Relink(w.dl[c].link)]],
          !.orphans = [s \in ModelSizes |->
                          [w.orphans[s] EXCEPT !.link = Relink(w.orphans[s].link)]]]

\* fs.createWriteStream(p), flags 'w': create the file, or truncate it in
\* place (streams that already hold it keep their position).
createFile(w, p) ==
    [w EXCEPT !.fs[p] = IF w.fs[p].exists
                        THEN [w.fs[p] EXCEPT !.chunks = {}]
                        ELSE NewFile]

\* one chunk written by a stream at position k of the file it holds
writeChunk(w, l, k) ==
    IF l = "none" THEN w ELSE [w EXCEPT !.fs[l].chunks = @ \cup {k}]

\* ------------------------------------------------- downloadModel (59-105)
InAttempt(pc) == pc \in {"preflight", "connecting", "streaming", "finalizing", "move_wait"}

\* The closure variables of an attempt that is over are no longer read by
\* the call (only by the modal it left behind, see StaleModalClick).
ClearAttempt(w, c) ==
    [w EXCEPT
       !.dl[c].downloadCancelled = FALSE,
       !.dl[c].request = "null",
       !.dl[c].writeStream = "null",
       !.dl[c].link = "none",
       !.dl[c].received = 0,
       !.dl[c].redirectCount = 0,
       !.dl[c].staleTimer = FALSE,
       !.dl[c].retries = 0,
       !.dl[c].modalOpen = FALSE]

\* A fresh downloadModelAttempt (107-142): new modal, new closure variables,
\* cancel callback registered, preflight request sent. lastError is assigned
\* by every catch before it is read, so the value it carries into an attempt
\* is never observed.
StartAttempt(w, c) ==
    [ClearAttempt(w, c) EXCEPT
       !.dl[c].pc = "preflight",
       !.dl[c].probe = "none",
       !.dl[c].lastError = "none",
       !.dl[c].modalOpen = TRUE]

\* the call ends without the finally block (mutation of 101-104)
FinishCallKeepsMarker(w, c, result) ==
    [ClearAttempt(w, c) EXCEPT
       !.dl[c].pc = "done",
       !.dl[c].outcome = result]

\* finally { this.downloadsInProgress.delete(modelSize) } and the call's result
FinishCall(w, c, result) ==
    [ClearAttempt(w, c) EXCEPT
       !.inprog = @ \ {w.dl[c].size},
       !.dl[c].pc = "done",
       !.dl[c].outcome = result]

\* the loop runs while attempt <= maxRetries (mutation of 76)
RetryOrGiveUpOneMore(w, c, error) ==
    LET w1 == [w EXCEPT !.dl[c].lastError = error]
    IN IF IsCancellation(error)
       THEN FinishCall(w1, c, error)
       ELSE IF w.dl[c].attempt < MaxRetries
            THEN [ClearAttempt(w1, c) EXCEPT !.dl[c].pc = "backoff"]
            ELSE FinishCall(w1, c, error)

\* catch of the retry loop (83-100): error is what downloadModelAttempt threw
RetryOrGiveUp(w, c, error) ==
    LET w1 == [w EXCEPT !.dl[c].lastError = error]
    IN IF IsCancellation(error)
       THEN FinishCall(w1, c, error)
       ELSE IF w.dl[c].attempt < MaxRetries - 1
            THEN [ClearAttempt(w1, c) EXCEPT !.dl[c].pc = "backoff"]
            ELSE FinishCall(w1, c, error)

\* catch of downloadModelAttempt (210-270), then the caller's catch
AttemptCatch(w, c, error) ==
    LET s == w.dl[c].size
    IN IF w.dl[c].downloadCancelled
       THEN \* modal.close(); throw new Error('Download cancelled by user')
            RetryOrGiveUp(w, c, ErrCancelled)
       ELSE \* modal.setError(..); clean up temp file; throw error
            RetryOrGiveUp(
                unlinkIfExists([w EXCEPT !.stale = @ \cup {s}], TempPath(s)),
                c, error)

\* The transfer's promise is rejected while its request (and write stream, if
\* any) is still running: the transfer goes on without an owner.
LeaveOrphan(w, c) ==
    [w EXCEPT !.orphans[w.dl[c].size] =
        [st |-> IF w.dl[c].writeStream = "open" THEN "streaming" ELSE "connecting",
         received |-> w.dl[c].received,
         link |-> w.dl[c].link]]

\* the in-progress check sits inside the try block, so that the finally
\* block runs for the rejected call too (mutation of 64-72)
RejectCallInsideTry(w, c, s) ==
    [w EXCEPT !.inprog = @ \ {s},
              !.dl[c] = [IdleCall EXCEPT
                           !.size = s, !.pc = "done",
                           !.outcome = ErrAlreadyInProgress,
                           !.startedWhileBusy = TRUE]]

\* throw new Error('Download of ... model is already in progress') (65-67),
\* before the try block: nothing but the caller's promise is touched
RejectCall(w, c, s) ==
    [w EXCEPT !.dl[c] = [IdleCall EXCEPT
                           !.size = s, !.pc = "done",
                           !.outcome = ErrAlreadyInProgress,
                           !.startedWhileBusy = TRUE]]

\* downloadModel without the in-progress check (mutation of 65-67)
DownloadModelUnguarded(c, s) ==
    /\ dl[c].pc = "idle"
    /\ Commit(StartAttempt(
         [World EXCEPT !.inprog = @ \cup {s},
                       !.dl[c] = [IdleCall EXCEPT !.size = s,
                                    !.startedWhileBusy = s \in downloadsInProgress,
                                    !.installedAtStart = IsComplete(fs[ModelPath(s)])]], c))

\* downloadModel(modelSize) is invoked
DownloadModel(c, s) ==
    /\ dl[c].pc = "idle"
    /\ IF s \in downloadsInProgress
       THEN Commit(RejectCall(World, c, s))
       ELSE Commit(StartAttempt(
              [World EXCEPT !.inprog = @ \cup {s},
                            !.dl[c] = [IdleCall EXCEPT !.size = s,
                                         !.installedAtStart = IsComplete(fs[ModelPath(s)])]], c))

\* await this.testConnection(url) settles (142-156); on success the first
\* request of downloadWithRedirects is sent and its connection timer armed
\* how the request of testConnection can end: a response with a success
\* status, a response with an error status, a socket error, no answer in 10 s
ProbeOutcomes == {"response_ok", "response_error", "error", "timeout"}

\* testConnection (273-300): resolve(true) in the response callback, whatever
\* the status; resolve(false) on 'error' and on 'timeout'
testConnection(outcome) == outcome \in {"response_ok", "response_error"}

PreflightDone(c, outcome) ==
    /\ dl[c].pc = "preflight"
    /\ outcome \in ProbeOutcomes
    /\ LET w == [World EXCEPT !.dl[c].probe = outcome]
       IN IF testConnection(outcome)
          THEN Commit([w EXCEPT !.dl[c].pc = "connecting"])
          ELSE Commit(AttemptCatch(w, c, ErrCannotReach))

\* setTimeout(resolve, 2000) of the retry loop fires: next attempt
BackoffDone(c) ==
    /\ dl[c].pc = "backoff"
    /\ Commit(StartAttempt([World EXCEPT !.dl[c].attempt = @ + 1], c))

\* The promise of a finished call settles in the same turn, so its caller
\* resumes before any other event is handled.
NoPendingResult == \A c \in Calls : dl[c].pc # "done"

\* the caller has its result; the slot can carry a later invocation
Return(c) ==
    /\ dl[c].pc = "done"
    /\ Commit([World EXCEPT !.dl[c] = IdleCall])

\* ------------------------------------------ downloadWithRedirects (302-462)
ResponseKinds == {"ok", "redirect", "redirect_no_location", "not_found"}

\* one redirect more is followed (mutation of 322)
tooManyRedirectsLate(redirectCount) == redirectCount > MaxRedirects

\* if (redirectCount >= maxRedirects) reject (322-325)
tooManyRedirects(redirectCount) == redirectCount >= MaxRedirects

\* the https.get callback runs for the current request (311-345)
Response(c, kind) ==
    /\ dl[c].pc = "connecting"
    /\ kind \in ResponseKinds
    /\ CASE kind = "redirect" ->
              IF tooManyRedirects(dl[c].redirectCount)
              THEN Commit(AttemptCatch(World, c, ErrTooManyRedirects))
              ELSE \* download(redirectUrl, redirectCount + 1): a new request and a
                   \* new connection timer; the previous timer is left armed
                   Commit([World EXCEPT !.dl[c].redirectCount = @ + 1,
                                        !.dl[c].staleTimer = TRUE])
         [] kind = "redirect_no_location" ->
              Commit(AttemptCatch(World, c, ErrRedirectNoLocation))
         [] kind = "not_found" ->
              Commit(AttemptCatch(World, c, ErrHttp404))
         [] kind = "ok" ->
              \* clearTimeout(connectionTimeout); createWriteStream(destPath);
              \* onStreamCreated(request, fileStream)
              Commit([createFile(World, TempPath(dl[c].size)) EXCEPT
                        !.dl[c].pc = "streaming",
                        !.dl[c].redirectCount = 0,
                        !.dl[c].request = "set",
                        !.dl[c].writeStream = "open",
                        !.dl[c].link = TempPath(dl[c].size),
                        !.dl[c].received = 0])

\* request.on('error') before any response (419-431)
RequestError(c) ==
    /\ dl[c].pc = "connecting"
    /\ Commit(AttemptCatch(World, c, ErrConnReset))

\* the current request's connection timer fires (435-439): request.destroy()
ConnectionTimeout(c) ==
    /\ dl[c].pc = "connecting"
    /\ Commit(AttemptCatch(World, c, ErrConnTimeout))

\* the timer of a request that was answered by a redirect fires (435-439):
\* it destroys that finished request and rejects the whole download, while
\* the current request, and its write stream, keep running
StaleConnectionTimeout(c) ==
    /\ dl[c].pc \in {"connecting", "streaming"}
    /\ dl[c].staleTimer
    /\ dl[c].writeStream # "destroyed"
    /\ orphans[dl[c].size].st = "none"
    /\ Commit(AttemptCatch(
         [LeaveOrphan(World, c) EXCEPT !.dl[c].writeStream = "null",
                                       !.dl[c].link = "none"],
         c, ErrConnTimeout))

\* response.on('data') and the piped write of the chunk (351-359)
Chunk(c) ==
    /\ dl[c].pc = "streaming"
    /\ dl[c].writeStream = "open"
    /\ dl[c].received < TotalSize
    /\ Commit([writeChunk(World, dl[c].link, dl[c].received + 1) EXCEPT
                 !.dl[c].received = @ + 1])

\* 'finish' then 'close' of the file stream resolve the download (362-374);
\* downloadModelAttempt resumes at 169
StreamFinish(c) ==
    /\ dl[c].pc = "streaming"
    /\ dl[c].writeStream = "open"
    /\ dl[c].received = TotalSize
    /\ LET w == [World EXCEPT !.dl[c].writeStream = "closed", !.dl[c].link = "none"]
       IN IF dl[c].downloadCancelled
          THEN Commit(AttemptCatch(w, c, ErrCancelled))
          ELSE Commit([w EXCEPT !.dl[c].pc = "finalizing",
                                !.dl[c].retries = MoveRetries])

\* 'close' of a file stream destroyed by the cancel callback (366-374, 169-171)
StreamClosed(c) ==
    /\ dl[c].pc = "streaming"
    /\ dl[c].writeStream = "destroyed"
    /\ Commit(AttemptCatch([World EXCEPT !.dl[c].link = "none"], c, ErrCancelled))

\* fileStream.on('error') / response.on('error') (376-416): close the stream,
\* unlink destPath if it exists, reject
StreamError(c, error) ==
    /\ dl[c].pc = "streaming"
    /\ dl[c].writeStream = "open"
    /\ error \in {ErrConnReset, ErrNoSpace}
    /\ Commit(AttemptCatch(
         unlinkIfExists([World EXCEPT !.dl[c].writeStream = "closed"],
                        TempPath(dl[c].size)),
         c, error))

\* the inactivity timer fires (451-456): request.destroy(), reject; the
\* destroyed request makes the response fail, whose handler closes the
\* stream and unlinks destPath
StallTimeout(c) ==
    /\ dl[c].pc = "streaming"
    /\ dl[c].writeStream = "open"
    /\ Commit(AttemptCatch(
         unlinkIfExists([World EXCEPT !.dl[c].writeStream = "closed"],
                        TempPath(dl[c].size)),
         c, ErrStalled))

\* ------------------------------------- cancel callback (124-136, modal 265-273)
\* "Cancel Download" is clicked on the modal of the running attempt
Cancel(c) ==
    /\ InAttempt(dl[c].pc)
    /\ dl[c].modalOpen
    /\ Commit(unlinkIfExists(
         [World EXCEPT
            !.dl[c].downloadCancelled = TRUE,
            !.dl[c].userCancelled = TRUE,
            !.dl[c].modalOpen = FALSE,
            !.dl[c].writeStream = IF @ = "open" THEN "destroyed" ELSE @],
         TempPath(dl[c].size)))

\* --------------------------------------------- move to final path (179-208)
MoveFaults == {"none", "unlink_fails", "rename_fails"}

\* One pass of the while loop, entered after the 500 ms wait (177) or after
\* the 1000 ms wait of the previous pass (198).
MoveTry(c, fault) ==
    LET s == dl[c].size
        tmp == TempPath(s)
        dst == ModelPath(s)
        moved == renameSync(unlinkIfExists(World, dst), tmp, dst)
        \* a rename that throws leaves what the unlink before it did
        halfway == unlinkIfExists(World, dst)
        thrown(w) == IF dl[c].retries - 1 = 0
                     THEN AttemptCatch([w EXCEPT !.dl[c].retries = 0], c, ErrFinalize)
                     ELSE [w EXCEPT !.dl[c].retries = @ - 1, !.dl[c].pc = "move_wait"]
        \* modal.setComplete(); return; the caller returns; finally
        success(w) == FinishCall([w EXCEPT !.stale = @ \cup {s}], c, "ok")
    IN /\ dl[c].pc \in {"finalizing", "move_wait"}
       /\ fault \in MoveFaults
       /\ CASE fault = "none" ->
                 IF fs[tmp].exists THEN Commit(success(moved))
                                   ELSE Commit(success(World))
            [] fault = "unlink_fails" ->
                 /\ fs[tmp].exists /\ fs[dst].exists
                 /\ Commit(thrown(World))
            [] fault = "rename_fails" ->
                 /\ fs[tmp].exists
                 /\ Commit(thrown(halfway))

\* ------------------------------------------------ ownerless transfers
\* the response to a request whose download was already rejected (311-345)
OrphanResponse(s, ok) ==
    /\ orphans[s].st = "connecting"
    /\ IF ok
       THEN Commit([createFile(World, TempPath(s)) EXCEPT
                      !.orphans[s] = [st |-> "streaming", received |-> 0,
                                      link |-> TempPath(s)]])
       ELSE Commit([World EXCEPT !.orphans[s] = NoOrphan])

OrphanChunk(s) ==
    /\ orphans[s].st = "streaming"
    /\ orphans[s].received < TotalSize
    /\ Commit([writeChunk(World, orphans[s].link, orphans[s].received + 1) EXCEPT
                 !.orphans[s].received = @ + 1])

\* 'finish'/'close': resolve() of a settled promise does nothing
OrphanFinish(s) ==
    /\ orphans[s].st = "streaming"
    /\ orphans[s].received = TotalSize
    /\ Commit([World EXCEPT !.orphans[s] = NoOrphan])

\* response/file error or stall of the ownerless transfer (376-416):
\* its handler still unlinks destPath
OrphanError(s) ==
    /\ orphans[s].st = "streaming"
    /\ Commit(unlinkIfExists([World EXCEPT !.orphans[s] = NoOrphan], TempPath(s)))

\* --------------------------------------------- modals of finished attempts
\* The button of a modal in its error or complete state ("Close") still runs
\* the cancel callback of its attempt (modal 265-273, 304-314).
StaleModalClick(s) ==
    /\ s \in staleModals
    /\ Commit(unlinkIfExists(
         [World EXCEPT !.stale = @ \ {s},
                       !.orphans[s] = IF @.st = "streaming" THEN NoOrphan ELSE @],
         TempPath(s)))

\* the modal goes away without its button (auto-close 206-208, Esc)
StaleModalDismiss(s) ==
    /\ s \in staleModals
    /\ Commit([World EXCEPT !.stale = @ \ {s}])


\* ===================== TranscriptionService (src/unnamed/part_007) ==========
NumJobs == 1         \* transcribe() invocations
Jobs == 1..NumJobs

ProcessingModes == {"local", "cloud-whisper", "cloud-openrouter"}
KeyShapes == {"empty", "malformed", "valid"}   \* '', 'abc', 'sk-...' / 'sk-or-...'

\* DEFAULT_SETTINGS.maxRecentTranscriptions
DefaultMaxRecent == 10

\* DEFAULT_SETTINGS with the keys filled in and the engine installed
DefaultSettings ==
    [processingMode |-> "local", modelSize |-> "base", binaryExists |-> TRUE,
     openaiApiKey |-> "valid", openrouterApiKey |-> "valid",
     openrouterModelName |-> "valid",
     deleteAudioAfterTranscription |-> FALSE,
     recentTranscriptions |-> <<>>, maxRecentTranscriptions |-> DefaultMaxRecent]

\* ---- audio files
\* an audio file of the vault: <stem>.<ext>, with its sample rate
AudioFile(stem, ext, rate) == [stem |-> stem, ext |-> ext, rate |-> rate]
NoSource == AudioFile("none", "none", 0)

Sources ==
    {AudioFile("talk", "wav", 16000), AudioFile("loud", "wav", 44100),
     AudioFile("talk", "m4a", 44100), AudioFile("talk", "mp3", 44100)}

AudioPath(src) == src.stem \o "." \o src.ext

\* audioPath.replace(/\.[^.]+$/, '.temp.wav') (LocalWhisperProcessor.ts 130)
TempWavPath(src) == src.stem \o ".temp.wav"

TempWavPaths == {TempWavPath(src) : src \in Sources}

\* the files offered to a single job: one per way through convertToWav
SingleJobSources == {src \in Sources : src.ext # "mp3"}

\* getMarkdownFileName (573-585): <basename>.md in the folder of the audio file
MdPath(src) == src.stem \o ".md"

MdPaths == {MdPath(src) : src \in Sources}

\* a document of the vault: nothing at the path, a note without transcription
\* markers, or a transcription; by is the job that wrote it, 0 for a document
\* that was there before
NoVaultDoc == [kind |-> "none", by |-> 0]
EmptyVault == [p \in MdPaths |-> NoVaultDoc]

\* hasTranscriptionContent(content) (main.ts 177-182)
hasTranscriptionContent(d) == d.kind = "transcription"

\* ---- engine outputs and their parsing
MaxSegments == 3     \* segments in an engine output
MaxStart == 2        \* latest start time of a segment, in seconds

\* a segment of the output without a start field
Missing == -1

\* an engine output: text without a JSON payload, or a payload whose segments
\* carry a start time or none
EngineSegments ==
    UNION {[1..n -> [start : {Missing} \cup 0..MaxStart]] : n \in 0..MaxSegments}

NoParse == [json |-> FALSE, output |-> <<>>, by |-> "none", segments |-> <<>>]

\* the segments are collected newest first (mutation of the map at 360-364)
parseSegmentsReversed(output) ==
    [i \in 1..Len(output) |->
        [start |-> IF output[Len(output) + 1 - i].start = Missing THEN 0
                   ELSE output[Len(output) + 1 - i].start]]

\* (json.segments || []).map(seg => ({start: seg.start || 0, ..})) of
\* parseWhisperOutput (360-364) and parseOpenAIResponse (151-155)
parseSegments(output) ==
    [i \in 1..Len(output) |->
        [start |-> IF output[i].start = Missing THEN 0 ELSE output[i].start]]

\* what whisper.cpp requires: 16 kHz mono PCM WAV (the sources here are mono)
IsTargetFormat(src) == src.ext = "wav" /\ src.rate = 16000

\* audioPath.toLowerCase().endsWith('.wav') (117)
EndsWithWav(src) == src.ext = "wav"

\* ---- error messages and the substrings the code looks for in them
MsgBinaryNotFoundSetup == "Whisper.cpp binary not found. Solution: Go to Settings"
MsgModelNotFoundSetup == "Model not found. Solution: Go to Settings"
MsgOpenAIKeyMissing == "OpenAI API key not configured. Solution: Go to Settings"
MsgOpenAIKeyFormat == "Invalid OpenAI API key format. Solution: Check your API key"
MsgORKeyMissing == "OpenRouter API key not configured. Solution: Go to Settings"
MsgORKeyFormat == "Invalid OpenRouter API key format. Solution: Check your API key"
MsgORModelMissing == "OpenRouter model name not configured. Solution: Go to Settings"
MsgBinaryNotFound == "Whisper.cpp binary not found. Please download it from settings."
MsgModelNotFound == "Model not found. Please download it first."
MsgFfmpegNotFound == "ffmpeg not found. Please install ffmpeg to convert audio files."
MsgFfmpegFailed == "FFmpeg conversion failed"
MsgWhisperExit == "Whisper process exited with code"
MsgCloudTimeout == "Transcription failed: network timeout"
MsgCloudApi == "Transcription failed: OpenAI API error"
MsgORUnsupported == "OpenRouter transcription not supported."
MsgAnalysisApi == "Analysis failed: OpenRouter API error"
MsgAnalysisTimeout == "Analysis failed: network timeout"
MsgVaultWrite == "File already exists."
MsgSaveSettings == "Failed to save plugin data"
MsgOpenLink == "Failed to open file"

ValidationMessages ==
    {MsgBinaryNotFoundSetup, MsgModelNotFoundSetup, MsgOpenAIKeyMissing,
     MsgOpenAIKeyFormat, MsgORKeyMissing, MsgORKeyFormat, MsgORModelMissing}

\* message.toLowerCase().includes(sub), for the substrings of shouldRetryError
Includes(msg, sub) ==
    CASE sub = "not configured" -> msg \in {MsgOpenAIKeyMissing, MsgORKeyMissing, MsgORModelMissing}
      [] sub = "not found" -> msg \in {MsgBinaryNotFoundSetup, MsgModelNotFoundSetup,
                                       MsgBinaryNotFound, MsgModelNotFound, MsgFfmpegNotFound}
      [] sub = "invalid" -> msg \in {MsgOpenAIKeyFormat, MsgORKeyFormat}
      [] sub = "solution:" -> msg \in ValidationMessages
      [] sub = "timeout" -> msg \in {MsgCloudTimeout, MsgAnalysisTimeout}
      [] sub = "network" -> msg \in {MsgCloudTimeout, MsgAnalysisTimeout}
      [] OTHER -> FALSE

\* shouldRetryError(error) (227-249)
shouldRetryError(msg) ==
    IF Includes(msg, "not configured") \/ Includes(msg, "not found")
       \/ Includes(msg, "invalid") \/ Includes(msg, "solution:")
    THEN FALSE
    ELSE IF Includes(msg, "timeout") \/ Includes(msg, "network")
            \/ Includes(msg, "econnrefused") \/ Includes(msg, "enotfound")
            \/ Includes(msg, "fetch failed")
         THEN TRUE
         ELSE TRUE

\* The errors the spec calls transient (network error, timeout)
IsTransient(msg) == Includes(msg, "timeout") \/ Includes(msg, "network")

NoDoc == [exists |-> FALSE, transcript |-> "none", analysis |-> "absent",
          analysisError |-> "none"]

IdleJob ==
    [pc |-> "idle", source |-> NoSource, step |-> "none", modalOpen |-> FALSE,
     cancelled |-> FALSE, proc |-> "none", wavPath |-> "none",
     transcript |-> "none", analysis |-> "absent", analysisError |-> "none",
     analysisAttempts |-> 0, transcribeAttempts |-> 0,
     doc |-> NoDoc, recorded |-> FALSE, error |-> "none", failedIn |-> "none",
     validation |-> "none", spawned |-> {}, requests |-> {},
     cancelledAt |-> "none", sourceExists |-> TRUE,
     thrown |-> "none", analysisFailures |-> 0, steps |-> <<>>,
     shouldOverwrite |-> FALSE, confirmed |-> FALSE,
     progress |-> 0, progressMax |-> 0, progressCount |-> 0, converted |-> 0]

Terminal(pc) == pc \in {"complete", "failed", "cancelled"}

\* progressModal.updateProgress(step, ..) (78, 82, 108, 113, 129, 133) marks
\* the step the job is in; steps keeps the steps entered, in order
Enter(jr, st) ==
    [jr EXCEPT !.step = st,
               !.steps = IF jr.step = st THEN @ ELSE Append(@, st)]

MsgOpenAIKeyMissingProc == "OpenAI API key not configured. Please add it in settings."

\* LocalWhisperProcessor.checkBinaryExists (LocalWhisperProcessor.ts 51-53):
\* an async function; the value it resolves to
checkBinaryExists == settings.binaryExists

\* `const binaryExists = this.localProcessor.checkBinaryExists()` (178) is
\* not awaited: binaryExists is the Promise itself, and `!binaryExists` is
\* false whatever the Promise resolves to.
binaryExistsUnawaited == TRUE

\* validateSetup without the credential checks of the transcription mode
validateSetupNoKeyCheck ==
    IF settings.processingMode = "local" /\ ~binaryExistsUnawaited
    THEN MsgBinaryNotFoundSetup
    ELSE IF settings.processingMode = "local" /\ ~checkModelExists(settings.modelSize)
    THEN MsgModelNotFoundSetup
    ELSE IF settings.openrouterApiKey = "empty" THEN MsgORKeyMissing
    ELSE IF settings.openrouterApiKey = "malformed" THEN MsgORKeyFormat
    ELSE IF settings.openrouterModelName = "empty" THEN MsgORModelMissing
    ELSE "ok"

\* validateSetup(audioFile) (163-225): "ok", or the message of the Error thrown
validateSetup ==
    IF settings.processingMode = "local" /\ ~binaryExistsUnawaited
    THEN MsgBinaryNotFoundSetup
    ELSE IF settings.processingMode = "local" /\ ~checkModelExists(settings.modelSize)
    THEN MsgModelNotFoundSetup
    ELSE IF settings.processingMode = "cloud-whisper" /\ settings.openaiApiKey = "empty"
    THEN MsgOpenAIKeyMissing
    ELSE IF settings.processingMode = "cloud-whisper" /\ settings.openaiApiKey = "malformed"
    THEN MsgOpenAIKeyFormat
    ELSE IF settings.openrouterApiKey = "empty" THEN MsgORKeyMissing
    ELSE IF settings.openrouterApiKey = "malformed" THEN MsgORKeyFormat
    ELSE IF settings.openrouterModelName = "empty" THEN MsgORModelMissing
    ELSE "ok"

\* getErrorMessage(error) (251-302)
getErrorMessage(msg) ==
    IF Includes(msg, "solution:") THEN msg
    ELSE IF msg = MsgFfmpegNotFound THEN "FFmpeg not found. Required for audio conversion."
    ELSE IF Includes(msg, "timeout")
    THEN "Request timed out. Check your internet connection and try again."
    ELSE "Transcription failed: " \o msg

\* formatMarkdown (407-535): the transcript section is always rendered; the
\* analysis sections only without analysisError and with an analysis
formatMarkdown(jr) ==
    [exists |-> TRUE,
     transcript |-> jr.transcript,
     analysis |-> IF jr.analysisError # "none" THEN "absent" ELSE jr.analysis,
     analysisError |-> jr.analysisError]

\* the error of the transcription step is swallowed and the job goes on to
\* save what it has (mutation of 88-101)
CatchTranscriptionContinue(jr, msg) ==
    IF jr.cancelled
    THEN [jr EXCEPT !.pc = "cancelled", !.modalOpen = FALSE, !.thrown = msg]
    ELSE Enter([jr EXCEPT !.pc = "saving_doc", !.thrown = msg], "saving")

\* catch of the validation/transcription try block (88-101)
CatchTranscription(jr, msg) ==
    IF jr.cancelled
    THEN [jr EXCEPT !.pc = "cancelled", !.modalOpen = FALSE, !.thrown = msg]
    ELSE [jr EXCEPT !.pc = "failed", !.error = getErrorMessage(msg),
                    !.failedIn = "transcription", !.thrown = msg]

\* catch of the saving try block (155-160)
CatchSaving(jr, msg) ==
    [jr EXCEPT !.pc = "failed", !.error = getErrorMessage(msg), !.failedIn = "saving"]

\* the engine is spawned and the analysis request is sent without waiting
\* for the engine to exit (mutation of 74-80: runWhisper not awaited)
SpawnWhisperNoAwait(jr) ==
    Enter([jr EXCEPT !.pc = "analyzing", !.proc = "running",
                     !.spawned = @ \cup {"whisper"},
                     !.analysisAttempts = @ + 1,
                     !.requests = @ \cup {"openrouter"}],
          "analysis")

\* onProgress(v, ..) of transcribeLocal (326-328): this.currentProgress = v;
\* progressMax keeps the highest value reported so far
Report(jr, v) ==
    [jr EXCEPT !.progress = v, !.progressMax = IF v > @ THEN v ELSE @]

\* runWhisper up to spawn (255-279): onProgress(20, ..), progressCount = 20
SpawnWhisper(jr) ==
    [Report(jr, 20) EXCEPT !.pc = "whisper", !.proc = "running",
                           !.spawned = @ \cup {"whisper"}, !.progressCount = 20]

\* every source is converted before the engine runs (mutation of 116-120)
convertsNever(src) == FALSE

\* convertToWav returns audioPath itself (116-120)
convertsNothing(src) == EndsWithWav(src)

\* LocalWhisperProcessor.transcribe up to its first pending await (55-72, 112-135)
LocalStart(jr) ==
    IF ~checkBinaryExists THEN CatchTranscription(jr, MsgBinaryNotFound)
    ELSE IF ~checkModelExists(settings.modelSize) THEN CatchTranscription(jr, MsgModelNotFound)
    ELSE IF convertsNothing(jr.source)
    THEN SpawnWhisper([Report(jr, 10) EXCEPT !.wavPath = AudioPath(jr.source)])
    ELSE [Report(jr, 10) EXCEPT !.pc = "ffmpeg_check",
                                !.spawned = @ \cup {"ffmpeg -version"}]

\* CloudWhisperProcessor.transcribe up to requestUrl (14-59)
CloudStart(jr) ==
    IF settings.openaiApiKey = "empty" THEN CatchTranscription(jr, MsgOpenAIKeyMissingProc)
    ELSE [jr EXCEPT !.pc = "cloud_request", !.requests = @ \cup {"openai"}]

\* transcribeAudio (304-320)
transcribeAudio(jr) ==
    LET jr1 == Enter([jr EXCEPT !.transcribeAttempts = @ + 1], "transcription")
    IN CASE settings.processingMode = "local" -> LocalStart(jr1)
         [] settings.processingMode = "cloud-whisper" -> CloudStart(jr1)
         [] OTHER -> CatchTranscription(jr1, MsgORUnsupported)

\* analyzeTranscription -> OpenRouterProcessor.analyzeText up to requestUrl;
\* its own key checks cannot fail once validateSetup has passed
AnalysisStart(jr) ==
    Enter([jr EXCEPT !.pc = "analyzing",
                     !.analysisAttempts = @ + 1, !.requests = @ \cup {"openrouter"}],
          "analysis")

\* Step 3 up to the vault write of createMarkdownFile (128-130, 359-384)
SavingStart(jr) == Enter([jr EXCEPT !.pc = "saving_doc"], "saving")

\* a failed analysis retry aborts the job (mutation of 120-124)
AnalysisGiveUpAbort(jr, msg) ==
    [jr EXCEPT !.pc = "failed", !.error = getErrorMessage(msg), !.failedIn = "analysis"]

\* catch of the analysis retry (120-124)
AnalysisGiveUp(jr, msg) ==
    SavingStart([jr EXCEPT !.analysisError = getErrorMessage(msg)])

\* addToRecentTranscriptions without the slice (mutation of 663-667)
addToRecentTranscriptionsUnbounded(list, entry, maxEntries) == <<entry>> \o list

\* addToRecentTranscriptions (646-671): unshift, then slice(0, maxEntries)
\* if the list has grown beyond maxEntries
addToRecentTranscriptions(list, entry, maxEntries) ==
    LET grown == <<entry>> \o list
    IN IF Len(grown) > maxEntries THEN SubSeq(grown, 1, maxEntries) ELSE grown

\* the clean-up is left out (mutation of 84-95 and 136-139)
unlinkWavSkipped(tw, path) == tw

\* if (fs.existsSync(path)) fs.unlinkSync(path), for a temp wav path
unlinkWav(tw, path) ==
    IF path \in DOMAIN tw THEN [tw EXCEPT ![path] = 0] ELSE tw

\* the job record of j and the temp wav files change
SetJobAndWavs(j, jr, tw) ==
    /\ job' = [job EXCEPT ![j] = jr]
    /\ currentProcess' = IF jr.proc = "running" /\ job[j].proc # "running"
                         THEN j ELSE currentProcess
    /\ tempWavs' = tw
    /\ UNCHANGED <<settings, recordLog, vaultDoc, parse, dlvars>>

SetJob(j, jr) == SetJobAndWavs(j, jr, tempWavs)

\* transcribe(audioFile) is called: getAudioDuration runs ffprobe (51-56)
Transcribe(j, src) ==
    /\ job[j].pc = "idle"
    /\ src \in Sources
    /\ SetJob(j, [IdleJob EXCEPT !.pc = "probing", !.source = src,
                                 !.spawned = {"ffprobe"}])

\* transcribeAudioFile, steps 2-4 (main.ts 114-157): an existing document
\* with transcription content makes the plugin ask; otherwise transcribe() is
\* called with shouldOverwrite = false
TranscribeAudioFile(j, src) ==
    /\ job[j].pc = "idle"
    /\ src \in Sources
    /\ IF hasTranscriptionContent(vaultDoc[MdPath(src)])
       THEN SetJob(j, [IdleJob EXCEPT !.pc = "confirming", !.source = src])
       ELSE SetJob(j, [IdleJob EXCEPT !.pc = "probing", !.source = src,
                                      !.spawned = {"ffprobe"}])

\* the OverwriteConfirmationModal is answered (main.ts 123-137, modal
\* 378-455): 'Overwrite' starts transcribe() with shouldOverwrite = true;
\* 'Cancel' or closing the modal opens the existing document and returns
OverwriteAnswer(j, overwrite) ==
    /\ job[j].pc = "confirming"
    /\ IF overwrite
       THEN SetJob(j, [job[j] EXCEPT !.pc = "probing", !.spawned = {"ffprobe"},
                                    !.shouldOverwrite = TRUE, !.confirmed = TRUE])
       ELSE SetJob(j, [job[j] EXCEPT !.pc = "declined"])

\* ffprobe is done: progress modal, validateSetup, transcribeAudio (57-84)
ProbeDone(j) ==
    /\ job[j].pc = "probing"
    /\ LET jr == Enter([job[j] EXCEPT !.modalOpen = TRUE], "validation")
       IN IF validateSetup # "ok"
          THEN SetJob(j, CatchTranscription([jr EXCEPT !.validation = "failed"],
                                            validateSetup))
          ELSE SetJob(j, transcribeAudio([jr EXCEPT !.validation = "ok"]))

\* `ffmpeg -version` has exited (144-162); runFfmpeg spawns the conversion
FfmpegCheckDone(j, available) ==
    /\ job[j].pc = "ffmpeg_check"
    /\ IF available
       THEN \* ffmpeg -y ... tempWavPath creates or overwrites the file
            SetJobAndWavs(j, [Report(job[j], 15) EXCEPT !.pc = "converting",
                                            !.wavPath = TempWavPath(job[j].source),
                                            !.spawned = @ \cup {"ffmpeg"}],
                          [tempWavs EXCEPT ![TempWavPath(job[j].source)] = j])
       ELSE SetJob(j, CatchTranscription(job[j], MsgFfmpegNotFound))

\* the conversion has exited (229-250, 126-135): exit code 0 with the output
\* file in place lets runWhisper spawn; otherwise the catch of convertToWav
\* unlinks the output path
FfmpegDone(j, ok) ==
    /\ job[j].pc = "converting"
    /\ IF ok /\ tempWavs[job[j].wavPath] # 0
       THEN SetJob(j, SpawnWhisper(Report(job[j], 95)))
       ELSE SetJobAndWavs(j, CatchTranscription(job[j], MsgFfmpegFailed),
                          unlinkWav(tempWavs, job[j].wavPath))

\* how far into the recording ffmpeg's 'time=' can be, in percent of the
\* 'Duration:' it printed first
ConvertedSteps == {0, 50, 100}

\* stderr 'data' of ffmpeg with a time= field (196-226)
FfmpegProgress(j, pct) ==
    /\ job[j].pc = "converting"
    /\ pct \in ConvertedSteps
    /\ pct >= job[j].converted
    /\ LET p == 15 + (pct * 75) \div 100
       IN SetJob(j, [Report(job[j], IF p > 90 THEN 90 ELSE p) EXCEPT
                       !.converted = pct])

\* stdout 'data' of whisper (284-291)
WhisperOutput(j) ==
    /\ job[j].pc = "whisper"
    /\ job[j].proc = "running"
    /\ LET n == IF job[j].progressCount + 5 > 90 THEN 90
                ELSE job[j].progressCount + 5
       IN SetJob(j, [Report(job[j], n) EXCEPT !.progressCount = n])

\* 'close' of the whisper process (298-330), then the clean-up of wavPath in
\* LocalWhisperProcessor.transcribe (74-95): for a .wav source wavPath is the
\* source itself
WhisperExit(j, result) ==
    /\ job[j].pc = "whisper"
    /\ result \in {"text", "empty", "fail"}
    /\ job[j].proc = "killed" => result = "fail"
    /\ LET jr == [job[j] EXCEPT !.proc = "none",
                     !.sourceExists = IF job[j].wavPath = AudioPath(job[j].source)
                                      THEN FALSE ELSE @]
       IN /\ job' = [job EXCEPT ![j] =
                        IF result = "fail"
                        THEN CatchTranscription(jr, MsgWhisperExit)
                        ELSE AnalysisStart([Report(jr, 100) EXCEPT !.transcript = result])]
          /\ currentProcess' = 0
          /\ tempWavs' = unlinkWav(tempWavs, job[j].wavPath)
          /\ UNCHANGED <<settings, recordLog, vaultDoc, parse, dlvars>>

\* requestUrl of CloudWhisperProcessor.transcribe settles (49-84)
CloudResponse(j, result) ==
    /\ job[j].pc = "cloud_request"
    /\ result \in {"text", "empty", MsgCloudTimeout, MsgCloudApi}
    /\ IF result \in {"text", "empty"}
       THEN SetJob(j, AnalysisStart([job[j] EXCEPT !.transcript = result]))
       ELSE SetJob(j, CatchTranscription(job[j], result))

\* requestUrl of analyzeText settles (107-125)
AnalysisResponse(j, result) ==
    /\ job[j].pc = "analyzing"
    /\ result \in {"ok", MsgAnalysisApi, MsgAnalysisTimeout}
    /\ IF result = "ok"
       THEN SetJob(j, SavingStart([job[j] EXCEPT !.analysis = "present"]))
       ELSE LET jr == [job[j] EXCEPT !.analysisFailures = @ + 1]
            IN IF jr.analysisAttempts = 1
               THEN SetJob(j, AnalysisStart(jr))
               ELSE SetJob(j, AnalysisGiveUp(jr, result))

\* an existing file is modified whatever the flag says (mutation of 378)
overwritesAlways(existing, shouldOverwrite) == existing

\* existingFile && existingFile instanceof TFile && shouldOverwrite (378):
\* vault.modify; otherwise vault.create, which throws if the path is taken
overwrites(existing, shouldOverwrite) == existing /\ shouldOverwrite

\* vault.create / vault.modify settles (376-387); then the recent list is
\* updated and saveSettings awaited
DocWritten(j, ok) ==
    /\ job[j].pc = "saving_doc"
    /\ IF IF overwrites(vaultDoc[MdPath(job[j].source)].kind # "none",
                        job[j].shouldOverwrite)
          THEN ok                                               \* vault.modify
          ELSE ok /\ vaultDoc[MdPath(job[j].source)].kind = "none" \* vault.create
       THEN /\ job' = [job EXCEPT ![j] = [job[j] EXCEPT !.pc = "saving_recent",
                                                        !.doc = formatMarkdown(job[j]),
                                                        !.recorded = TRUE]]
            /\ settings' = [settings EXCEPT !.recentTranscriptions =
                               addToRecentTranscriptions(@, AudioPath(job[j].source),
                                                         settings.maxRecentTranscriptions)]
            /\ recordLog' = <<AudioPath(job[j].source)>> \o recordLog
            /\ vaultDoc' = [vaultDoc EXCEPT ![MdPath(job[j].source)] =
                               [kind |-> "transcription", by |-> j]]
            /\ UNCHANGED <<currentProcess, tempWavs, parse, dlvars>>
       ELSE SetJob(j, CatchSaving(job[j], MsgVaultWrite))

\* saveSettings settles; markComplete, then openLinkText is awaited (132-142)
RecentSaved(j, ok) ==
    /\ job[j].pc = "saving_recent"
    /\ IF ok
       THEN SetJob(j, Enter([job[j] EXCEPT !.pc = "opening"], "complete"))
       ELSE SetJob(j, CatchSaving(job[j], MsgSaveSettings))

\* openLinkText settles (142-160)
Opened(j, ok) ==
    /\ job[j].pc = "opening"
    /\ IF ok
       THEN \* trashFile(audioFile) if deleteAudioAfterTranscription (144-153)
            SetJob(j, [job[j] EXCEPT !.pc = "complete",
                         !.sourceExists = IF settings.deleteAudioAfterTranscription
                                          THEN FALSE ELSE @])
       ELSE SetJob(j, CatchSaving(job[j], MsgOpenLink))

\* the Cancel button of the progress modal: handleCancel (modal 836-847),
\* then TranscriptionService.cancel (628-632): only the local processor has a
\* handle to kill; the cloud and OpenRouter cancel() are empty
CancelJob(j) ==
    /\ job[j].pc \in {"ffmpeg_check", "converting", "whisper", "cloud_request",
                      "analyzing", "saving_doc", "saving_recent"}
    /\ job[j].modalOpen
    /\ ~job[j].cancelled
    /\ job' = [k \in DOMAIN job |->
                 LET jr == IF k = j
                           THEN [job[k] EXCEPT !.cancelled = TRUE, !.cancelledAt = job[k].step]
                           ELSE job[k]
                 IN IF currentProcess = k THEN [jr EXCEPT !.proc = "killed"] ELSE jr]
    /\ currentProcess' = 0
    /\ UNCHANGED <<settings, tempWavs, recordLog, vaultDoc, parse, dlvars>>

\* ------------------------------------------------------------ specification
InitAcquire ==
    /\ fs \in [Paths -> {NoFile, PriorModel}]
    /\ \A s \in ModelSizes : fs[TempPath(s)] = NoFile
    /\ downloadsInProgress = {}
    /\ dl = [c \in Calls |-> IdleCall]
    /\ staleModals = {}
    /\ orphans = [s \in ModelSizes |-> NoOrphan]
    /\ settings = DefaultSettings
    /\ job = [j \in Jobs |-> IdleJob]
    /\ currentProcess = 0
    /\ tempWavs = [p \in TempWavPaths |-> 0]
    /\ recordLog = <<>>
    /\ vaultDoc = EmptyVault
    /\ parse = NoParse

NextAcquire ==
    \/ \E c \in Calls : Return(c)
    \/ /\ NoPendingResult
       /\ \/ \E c \in Calls, s \in ModelSizes : DownloadModel(c, s)
          \/ \E c \in Calls, outcome \in ProbeOutcomes : PreflightDone(c, outcome)
          \/ \E c \in Calls, k \in ResponseKinds : Response(c, k)
          \/ \E c \in Calls : RequestError(c)
          \/ \E c \in Calls : ConnectionTimeout(c)
          \/ \E c \in Calls : StaleConnectionTimeout(c)
          \/ \E c \in Calls : Chunk(c)
          \/ \E c \in Calls : StreamFinish(c)
          \/ \E c \in Calls : StreamClosed(c)
          \/ \E c \in Calls, e \in {ErrConnReset, ErrNoSpace} : StreamError(c, e)
          \/ \E c \in Calls : StallTimeout(c)
          \/ \E c \in Calls : Cancel(c)
          \/ \E c \in Calls, f \in MoveFaults : MoveTry(c, f)
          \/ \E c \in Calls : BackoffDone(c)
          \/ \E s \in ModelSizes, ok \in BOOLEAN : OrphanResponse(s, ok)
          \/ \E s \in ModelSizes : OrphanChunk(s)
          \/ \E s \in ModelSizes : OrphanFinish(s)
          \/ \E s \in ModelSizes : OrphanError(s)
          \/ \E s \in ModelSizes : StaleModalClick(s)
          \/ \E s \in ModelSizes : StaleModalDismiss(s)

SpecAcquire == InitAcquire /\ [][NextAcquire]_vars

\* ---- the same program with the event loop's guarantee that a pending
\* event of a call is eventually handled: every wait of a call is ended by a
\* response, an error or one of its timers (preflight 10 s, connection 30 s,
\* inactivity 120 s, back-off 2 s, move retry 1 s)
CallEvent(c) ==
    /\ NoPendingResult
    /\ \/ \E outcome \in ProbeOutcomes : PreflightDone(c, outcome)
       \/ \E k \in ResponseKinds : Response(c, k)
       \/ RequestError(c)
       \/ ConnectionTimeout(c)
       \/ StaleConnectionTimeout(c)
       \/ Chunk(c)
       \/ StreamFinish(c)
       \/ StreamClosed(c)
       \/ \E e \in {ErrConnReset, ErrNoSpace} : StreamError(c, e)
       \/ StallTimeout(c)
       \/ \E f \in MoveFaults : MoveTry(c, f)
       \/ BackoffDone(c)

\* one caller, whose calls follow one another
LiveCalls == {1}

NextAcquireLive ==
    \/ \E c \in LiveCalls : Return(c)
    \/ \E c \in LiveCalls, s \in ModelSizes : DownloadModel(c, s)
    \/ \E c \in LiveCalls : CallEvent(c)
    \/ \E c \in LiveCalls : NoPendingResult /\ Cancel(c)
    \/ /\ NoPendingResult
       /\ \/ \E s \in ModelSizes, ok \in BOOLEAN : OrphanResponse(s, ok)
          \/ \E s \in ModelSizes : OrphanChunk(s)
          \/ \E s \in ModelSizes : OrphanFinish(s)
          \/ \E s \in ModelSizes : OrphanError(s)
          \/ \E s \in ModelSizes : StaleModalClick(s)
          \/ \E s \in ModelSizes : StaleModalDismiss(s)

SpecAcquireLive ==
    /\ InitAcquire
    /\ [][NextAcquireLive]_vars
    /\ \A c \in LiveCalls : SF_vars(CallEvent(c)) /\ WF_vars(Return(c))

\* Settings that do not matter for the chosen mode keep their default.
InitJob ==
    /\ settings \in [processingMode : ProcessingModes, modelSize : {"base"},
                     binaryExists : BOOLEAN, openaiApiKey : KeyShapes,
                     openrouterApiKey : KeyShapes,
                     openrouterModelName : {"empty", "valid"},
                     deleteAudioAfterTranscription : {FALSE},
                     recentTranscriptions : {<<>>},
                     maxRecentTranscriptions : {DefaultMaxRecent}]
    /\ settings.processingMode # "local" => settings.binaryExists
    /\ settings.processingMode # "cloud-whisper" => settings.openaiApiKey = "valid"
    /\ fs \in [Paths -> {NoFile, PriorModel}]
    /\ \A s \in ModelSizes : fs[TempPath(s)] = NoFile
    /\ settings.processingMode # "local" => fs[ModelPath("base")] = PriorModel
    /\ downloadsInProgress = {}
    /\ dl = [c \in Calls |-> IdleCall]
    /\ staleModals = {}
    /\ orphans = [s \in ModelSizes |-> NoOrphan]
    /\ job = [j \in Jobs |-> IdleJob]
    /\ currentProcess = 0
    /\ tempWavs = [p \in TempWavPaths |-> 0]
    /\ recordLog = <<>>
    /\ vaultDoc = EmptyVault
    /\ parse = NoParse

NextJob ==
    \/ \E j \in Jobs, src \in SingleJobSources : Transcribe(j, src)
    \/ \E j \in Jobs : ProbeDone(j)
    \/ \E j \in Jobs, ok \in BOOLEAN : FfmpegCheckDone(j, ok)
    \/ \E j \in Jobs, ok \in BOOLEAN : FfmpegDone(j, ok)
    \/ \E j \in Jobs, r \in {"text", "empty", "fail"} : WhisperExit(j, r)
    \/ \E j \in Jobs, r \in {"text", "empty", MsgCloudTimeout, MsgCloudApi} : CloudResponse(j, r)
    \/ \E j \in Jobs, r \in {"ok", MsgAnalysisApi, MsgAnalysisTimeout} : AnalysisResponse(j, r)
    \/ \E j \in Jobs, ok \in BOOLEAN : DocWritten(j, ok)
    \/ \E j \in Jobs, ok \in BOOLEAN : RecentSaved(j, ok)
    \/ \E j \in Jobs, ok \in BOOLEAN : Opened(j, ok)
    \/ \E j \in Jobs : CancelJob(j)

SpecJob == InitJob /\ [][NextJob]_vars

\* ---- several transcribe() calls at once, on the one TranscriptionService
\* and the one LocalWhisperProcessor of the plugin; local mode, model installed
NumConcurrent == 2
ConcurrentJobs == 1..NumConcurrent

\* files whose names differ only in the extension, and a file needing no conversion
ConcurrentSources == {src \in Sources : src.stem = "talk"}

InitConcurrent ==
    /\ fs = [p \in Paths |-> IF p = ModelPath("base") THEN PriorModel ELSE NoFile]
    /\ downloadsInProgress = {}
    /\ dl = [c \in Calls |-> IdleCall]
    /\ staleModals = {}
    /\ orphans = [s \in ModelSizes |-> NoOrphan]
    /\ settings = DefaultSettings
    /\ job = [j \in ConcurrentJobs |-> IdleJob]
    /\ currentProcess = 0
    /\ tempWavs = [p \in TempWavPaths |-> 0]
    /\ recordLog = <<>>
    /\ vaultDoc = EmptyVault
    /\ parse = NoParse

NextConcurrent ==
    \/ \E j \in ConcurrentJobs, src \in ConcurrentSources : Transcribe(j, src)
    \/ \E j \in ConcurrentJobs : ProbeDone(j)
    \/ \E j \in ConcurrentJobs, ok \in BOOLEAN : FfmpegCheckDone(j, ok)
    \/ \E j \in ConcurrentJobs, ok \in BOOLEAN : FfmpegDone(j, ok)
    \/ \E j \in ConcurrentJobs, r \in {"text", "empty", "fail"} : WhisperExit(j, r)
    \/ \E j \in ConcurrentJobs, r \in {"ok", MsgAnalysisApi, MsgAnalysisTimeout} :
          AnalysisResponse(j, r)
    \/ \E j \in ConcurrentJobs, ok \in BOOLEAN : DocWritten(j, ok)
    \/ \E j \in ConcurrentJobs, ok \in BOOLEAN : RecentSaved(j, ok)
    \/ \E j \in ConcurrentJobs, ok \in BOOLEAN : Opened(j, ok)
    \/ \E j \in ConcurrentJobs : CancelJob(j)

SpecConcurrent == InitConcurrent /\ [][NextConcurrent]_vars

\* ---- transcribeAudioFile on a vault that may hold documents already; cloud
\* mode, so that the job is the requests and the saving
ExistingDocs ==
    {NoVaultDoc, [kind |-> "note", by |-> 0], [kind |-> "transcription", by |-> 0]}

\* the recordings transcribed there
OverwriteSources == {src \in Sources : src.ext = "m4a"}

InitOverwrite ==
    /\ fs = [p \in Paths |-> NoFile]
    /\ downloadsInProgress = {}
    /\ dl = [c \in Calls |-> IdleCall]
    /\ staleModals = {}
    /\ orphans = [s \in ModelSizes |-> NoOrphan]
    /\ settings = [DefaultSettings EXCEPT !.processingMode = "cloud-whisper"]
    /\ job = [j \in Jobs |-> IdleJob]
    /\ currentProcess = 0
    /\ tempWavs = [p \in TempWavPaths |-> 0]
    /\ recordLog = <<>>
    /\ vaultDoc \in [MdPaths -> ExistingDocs]
    /\ \A p \in MdPaths \ {MdPath(src) : src \in OverwriteSources} :
          vaultDoc[p] = NoVaultDoc
    /\ parse = NoParse

NextOverwrite ==
    \/ \E j \in Jobs, src \in OverwriteSources : TranscribeAudioFile(j, src)
    \/ \E j \in Jobs, overwrite \in BOOLEAN : OverwriteAnswer(j, overwrite)
    \/ \E j \in Jobs : ProbeDone(j)
    \/ \E j \in Jobs, r \in {"text", "empty", MsgCloudTimeout, MsgCloudApi} : CloudResponse(j, r)
    \/ \E j \in Jobs, r \in {"ok", MsgAnalysisApi, MsgAnalysisTimeout} : AnalysisResponse(j, r)
    \/ \E j \in Jobs, ok \in BOOLEAN : DocWritten(j, ok)
    \/ \E j \in Jobs, ok \in BOOLEAN : RecentSaved(j, ok)
    \/ \E j \in Jobs, ok \in BOOLEAN : Opened(j, ok)
    \/ \E j \in Jobs : CancelJob(j)

SpecOverwrite == InitOverwrite /\ [][NextOverwrite]_vars

\* ---- one local transcription with the output events of its subprocesses
InitProgress ==
    /\ fs = [p \in Paths |-> IF p = ModelPath("base") THEN PriorModel ELSE NoFile]
    /\ downloadsInProgress = {}
    /\ dl = [c \in Calls |-> IdleCall]
    /\ staleModals = {}
    /\ orphans = [s \in ModelSizes |-> NoOrphan]
    /\ settings = DefaultSettings
    /\ job = [j \in Jobs |-> IdleJob]
    /\ currentProcess = 0
    /\ tempWavs = [p \in TempWavPaths |-> 0]
    /\ recordLog = <<>>
    /\ vaultDoc = EmptyVault
    /\ parse = NoParse

NextProgress ==
    \/ \E j \in Jobs, src \in SingleJobSources : Transcribe(j, src)
    \/ \E j \in Jobs : ProbeDone(j)
    \/ \E j \in Jobs, ok \in BOOLEAN : FfmpegCheckDone(j, ok)
    \/ \E j \in Jobs, pct \in ConvertedSteps : FfmpegProgress(j, pct)
    \/ \E j \in Jobs, ok \in BOOLEAN : FfmpegDone(j, ok)
    \/ \E j \in Jobs : WhisperOutput(j)
    \/ \E j \in Jobs, r \in {"text", "empty", "fail"} : WhisperExit(j, r)
    \/ \E j \in Jobs : CancelJob(j)

SpecProgress == InitProgress /\ [][NextProgress]_vars

\* ---- the parsers on their own, applied to every engine output
\* parseWhisperOutput (339-379): without a JSON payload the whole output
\* becomes one segment starting at 0
ParseWhisperOutput ==
    /\ parse.by = "none"
    /\ parse' = [parse EXCEPT !.by = "whisper",
                              !.segments = IF parse.json THEN parseSegments(parse.output)
                                           ELSE <<[start |-> 0]>>]
    /\ UNCHANGED <<settings, job, currentProcess, tempWavs, recordLog, vaultDoc, dlvars>>

\* parseOpenAIResponse (149-166) of the JSON body of the API's answer
ParseOpenAIResponse ==
    /\ parse.by = "none"
    /\ parse.json
    /\ parse' = [parse EXCEPT !.by = "openai", !.segments = parseSegments(parse.output)]
    /\ UNCHANGED <<settings, job, currentProcess, tempWavs, recordLog, vaultDoc, dlvars>>

InitParse ==
    /\ fs = [p \in Paths |-> NoFile]
    /\ downloadsInProgress = {}
    /\ dl = [c \in Calls |-> IdleCall]
    /\ staleModals = {}
    /\ orphans = [s \in ModelSizes |-> NoOrphan]
    /\ settings = DefaultSettings
    /\ job = [j \in Jobs |-> IdleJob]
    /\ currentProcess = 0
    /\ tempWavs = [p \in TempWavPaths |-> 0]
    /\ recordLog = <<>>
    /\ vaultDoc = EmptyVault
    /\ parse \in {NoParse} \cup
                 {[NoParse EXCEPT !.json = TRUE, !.output = o] : o \in EngineSegments}

NextParse == ParseWhisperOutput \/ ParseOpenAIResponse

SpecParse == InitParse /\ [][NextParse]_vars

\* ---- the recent list on its own: addToRecentTranscriptions applied to every
\* sequence of recordings, for small values of maxRecentTranscriptions
MaxEntriesBound == 3
RecordLimit == 5

\* createMarkdownFile has written the document of a job on src and records it
Record(src) ==
    /\ Len(recordLog) < RecordLimit
    /\ settings' = [settings EXCEPT !.recentTranscriptions =
                       addToRecentTranscriptions(@, AudioPath(src),
                                                 settings.maxRecentTranscriptions)]
    /\ recordLog' = <<AudioPath(src)>> \o recordLog
    /\ UNCHANGED <<job, currentProcess, tempWavs, vaultDoc, parse, dlvars>>

\* the 'Clear All' button of the settings tab; the log restarts with the list
ClearHistory ==
    /\ settings.recentTranscriptions # <<>>
    /\ settings' = [settings EXCEPT !.recentTranscriptions = <<>>]
    /\ recordLog' = <<>>
    /\ UNCHANGED <<job, currentProcess, tempWavs, vaultDoc, parse, dlvars>>

InitRecent ==
    /\ fs = [p \in Paths |-> NoFile]
    /\ downloadsInProgress = {}
    /\ dl = [c \in Calls |-> IdleCall]
    /\ staleModals = {}
    /\ orphans = [s \in ModelSizes |-> NoOrphan]
    /\ settings \in {[DefaultSettings EXCEPT !.maxRecentTranscriptions = m] :
                        m \in 1..MaxEntriesBound}
    /\ job = [j \in Jobs |-> IdleJob]
    /\ currentProcess = 0
    /\ tempWavs = [p \in TempWavPaths |-> 0]
    /\ recordLog = <<>>
    /\ vaultDoc = EmptyVault
    /\ parse = NoParse

NextRecent ==
    \/ \E src \in SingleJobSources : Record(src)
    \/ ClearHistory

SpecRecent == InitRecent /\ [][NextRecent]_vars

TypeOKAcquire ==
    /\ \A p \in Paths : fs[p].chunks \subseteq Chunks
    /\ downloadsInProgress \subseteq ModelSizes
    /\ \A c \in Calls : dl[c].attempt \in 0..(MaxRetries - 1)

\* ------------------------------------------------------------------ claims
Active(c) == InAttempt(dl[c].pc) \/ dl[c].pc = "backoff"

\* C1: while a downloadModel call for a model size is in flight, a second
\* call for the same size is rejected at once with the already-in-progress
\* error: it never starts an attempt, and no two calls for one size are in
\* flight together.
C1_SecondCallRejected ==
    /\ \A c \in Calls :
         dl[c].startedWhileBusy =>
            dl[c].pc = "done" /\ dl[c].outcome = ErrAlreadyInProgress
    /\ \A c1, c2 \in Calls :
         (c1 # c2 /\ Active(c1) /\ Active(c2)) => dl[c1].size # dl[c2].size

C1_Witness ==
    \E c1, c2 \in Calls :
        /\ c1 # c2
        /\ InAttempt(dl[c1].pc)
        /\ dl[c2].size = dl[c1].size
        /\ dl[c2].startedWhileBusy
        /\ dl[c2].outcome = ErrAlreadyInProgress

\* C2: whenever checkModelExists(size) is true, the file at the final
\* install path is a complete model.
C2_InstalledIsComplete ==
    \A s \in ModelSizes : checkModelExists(s) => IsComplete(fs[ModelPath(s)])

\* ------------------------------------------------------------ claims on jobs
EngineSubprocesses == {"whisper", "ffmpeg", "ffmpeg -version"}

\* C3: a job on which the user has clicked Cancel before it was terminal ends
\* cancelled, and no document is written for it.
C3_CancelEndsCancelled ==
    \A j \in Jobs :
        (job[j].cancelled /\ Terminal(job[j].pc))
            => (job[j].pc = "cancelled" /\ ~job[j].doc.exists)

\* C4 as stated: a job whose transcription step has thrown ends failed, with
\* no document.
C4_FailureEndsFailed ==
    \A j \in Jobs :
        (job[j].validation = "ok" /\ job[j].thrown # "none")
            => (job[j].pc = "failed" /\ ~job[j].doc.exists)

\* C4: a job whose transcription step has thrown ends failed, or cancelled
\* when the user had clicked Cancel before the error was caught; in both
\* cases it is terminal at once, nothing is written and no analysis is asked.
C4_FailureIsFatal ==
    \A j \in Jobs :
        (job[j].validation = "ok" /\ job[j].thrown # "none")
            => /\ job[j].pc = (IF job[j].cancelled THEN "cancelled" ELSE "failed")
               /\ ~job[j].doc.exists
               /\ ~job[j].recorded
               /\ job[j].analysisAttempts = 0

C4_Witness ==
    \E j \in Jobs :
        /\ job[j].validation = "ok"
        /\ job[j].thrown = MsgWhisperExit
        /\ job[j].cancelled
        /\ job[j].pc = "cancelled"

\* C5: a job that has given up on transcription after an error the code
\* classifies as retryable and transient has run the transcription step twice.
C5_TransientRetriedOnce ==
    \A j \in Jobs :
        (/\ job[j].pc = "failed"
         /\ job[j].validation = "ok"
         /\ ~job[j].cancelled
         /\ IsTransient(job[j].thrown)
         /\ shouldRetryError(job[j].thrown))
            => job[j].transcribeAttempts = 2

\* C6: once the analysis request has failed twice the job is in its saving
\* step (or has ended there), never aborted by the analysis; the analysis is
\* absent and the failure reason is kept; the document written for it holds
\* the transcript and the reason, and a complete job has that document.
C6_AnalysisFailureNotFatal ==
    \A j \in Jobs :
        job[j].analysisFailures = 2
            => /\ job[j].step \in {"saving", "complete"}
               /\ job[j].pc \in {"saving_doc", "saving_recent", "opening", "complete", "failed"}
               /\ job[j].pc = "failed" => job[j].failedIn = "saving"
               /\ job[j].analysis = "absent"
               /\ job[j].analysisError # "none"
               /\ job[j].doc.exists
                    => /\ job[j].doc.transcript = job[j].transcript
                       /\ job[j].doc.transcript # "none"
                       /\ job[j].doc.analysis = "absent"
                       /\ job[j].doc.analysisError = job[j].analysisError
               /\ job[j].pc \in {"opening", "complete"} => job[j].doc.exists

C6_Witness ==
    \E j \in Jobs :
        /\ job[j].analysisFailures = 2
        /\ job[j].pc = "complete"
        /\ job[j].doc.exists
        /\ job[j].doc.transcript = "text"
        /\ job[j].doc.analysisError # "none"

\* C7: the transcription step is entered only with validation passed; a job
\* whose validateSetup has thrown is failed, having spawned no engine
\* subprocess and sent no request; in cloud mode with an empty or malformed
\* OpenAI key no job sends any request.
C7_ValidationGuardsTranscription ==
    \A j \in Jobs :
        /\ job[j].transcribeAttempts > 0 => job[j].validation = "ok"
        /\ job[j].validation = "failed"
            => /\ job[j].pc = "failed"
               /\ job[j].spawned \cap EngineSubprocesses = {}
               /\ job[j].requests = {}
               /\ job[j].transcribeAttempts = 0
               /\ job[j].analysisAttempts = 0
        /\ (settings.processingMode = "cloud-whisper" /\ settings.openaiApiKey # "valid")
            => (job[j].requests = {} /\ job[j].pc \in {"idle", "probing", "failed"})

C7_Witness ==
    \E j \in Jobs :
        /\ settings.processingMode = "cloud-whisper"
        /\ settings.openaiApiKey = "malformed"
        /\ job[j].validation = "failed"
        /\ job[j].pc = "failed"
        /\ job[j].error = MsgOpenAIKeyFormat

\* C8: in local mode with the engine binary absent (and the model installed)
\* a job that has passed the duration probe is failed in its validation step
\* by validateSetup, with no engine subprocess spawned.
C8_EngineMissingAtValidation ==
    \A j \in Jobs :
        (/\ settings.processingMode = "local"
         /\ ~settings.binaryExists
         /\ checkModelExists(settings.modelSize)
         /\ job[j].pc \notin {"idle", "probing"})
            => /\ job[j].pc = "failed"
               /\ job[j].validation = "failed"
               /\ job[j].step = "validation"
               /\ job[j].spawned \cap EngineSubprocesses = {}

\* the order of the steps of a job
StepOrder == <<"validation", "transcription", "analysis", "saving", "complete">>

\* C17: the steps a job has entered are an initial part of validation,
\* transcription, analysis, saving, complete, in that order; a step is
\* entered only with the previous one finished (validation passed; engine
\* exited or request answered, with a transcript; analysis answered or given
\* up; document written); a complete job has entered all five.
C17_StepsInOrder ==
    \A j \in Jobs :
        LET jr == job[j]
            n == Len(jr.steps)
        IN /\ n <= Len(StepOrder)
           /\ jr.steps = SubSeq(StepOrder, 1, n)
           /\ n >= 2 => jr.validation = "ok"
           /\ n >= 3 => /\ jr.transcript # "none"
                        /\ jr.proc = "none"
                        /\ jr.transcribeAttempts >= 1
           /\ n >= 4 => /\ jr.analysisAttempts >= 1
                        /\ jr.analysis = "present" \/ jr.analysisError # "none"
           /\ n >= 5 => jr.doc.exists
           /\ jr.pc \in {"opening", "complete"} => jr.steps = StepOrder

C17_Witness ==
    \E j \in Jobs :
        /\ job[j].pc = "complete"
        /\ job[j].steps = StepOrder
        /\ job[j].source.ext = "m4a"
        /\ job[j].analysis = "present"

\* what getErrorMessage makes of an error it has no special text for
TranscriptionFailedReports ==
    {"Transcription failed: " \o m :
        m \in {MsgVaultWrite, MsgSaveSettings, MsgOpenLink, MsgFfmpegFailed,
               MsgWhisperExit, MsgCloudApi, MsgORUnsupported, MsgAnalysisApi,
               MsgBinaryNotFound, MsgModelNotFound}}

\* C18: a job that has failed in its saving step is failed for good and its
\* error report is not worded as a transcription failure.
C18_SavingFailureDistinct ==
    \A j \in Jobs :
        (job[j].pc = "failed" /\ job[j].failedIn = "saving")
            => job[j].error \notin TranscriptionFailedReports

\* a subprocess or request of the job is in flight and has not been killed
InFlight(jr) ==
    \/ jr.pc \in {"ffmpeg_check", "converting", "cloud_request", "analyzing"}
    \/ jr.pc = "whisper" /\ jr.proc = "running"

\* C19: the step in which the user cancels a job leaves no subprocess and no
\* request of the job in flight.
C19_CancelStopsWork ==
    [][\A j \in Jobs :
          (~job[j].cancelled /\ job'[j].cancelled) => ~InFlight(job'[j])]_vars

\* C20: a job that has entered the analysis step has a non-empty transcript.
C20_AnalysisNeedsTranscript ==
    \A j \in Jobs :
        job[j].step \in {"analysis", "saving", "complete"}
            => job[j].transcript = "text"

\* C23: when a job is terminal (complete, failed or cancelled), no temp wav
\* file that its conversion created exists any more, the partial output of a
\* failed conversion included.
C23_TempWavGoneAtTerminal ==
    \A j \in Jobs :
        Terminal(job[j].pc) => \A p \in TempWavPaths : tempWavs[p] # j

C23_Witness ==
    \E j \in Jobs :
        /\ Terminal(job[j].pc)
        /\ "ffmpeg" \in job[j].spawned
        /\ job[j].wavPath = TempWavPath(job[j].source)
        /\ tempWavs[job[j].wavPath] = 0

\* C24: unless deleteAudioAfterTranscription is enabled, the source audio file
\* still exists when the job is terminal.
C24_SourceKept ==
    \A j \in Jobs :
        (Terminal(job[j].pc) /\ ~settings.deleteAudioAfterTranscription)
            => job[j].sourceExists

\* C25: for a source already in the target format no conversion tool is
\* spawned, no temp wav file is created, and the engine is given the source
\* file itself.
C25_TargetFormatPassthrough ==
    \A j \in Jobs :
        IsTargetFormat(job[j].source)
            => /\ job[j].spawned \cap {"ffmpeg -version", "ffmpeg"} = {}
               /\ tempWavs[TempWavPath(job[j].source)] # j
               /\ job[j].pc = "whisper" => job[j].wavPath = AudioPath(job[j].source)

C25_Witness ==
    \E j \in Jobs :
        /\ IsTargetFormat(job[j].source)
        /\ job[j].pc = "whisper"
        /\ job[j].wavPath = AudioPath(job[j].source)

\* sample rate of the file given to the engine: the output of
\* ffmpeg -ar 16000 -ac 1 -c:a pcm_s16le, or the source as it is
EngineInputRate(jr) ==
    IF jr.wavPath = TempWavPath(jr.source) THEN 16000 ELSE jr.source.rate

\* C26: the file the engine runs on is always 16 kHz audio; in particular a
\* WAV source at another sample rate has been converted.
C26_EngineInputNormalized ==
    \A j \in Jobs :
        job[j].pc = "whisper" => EngineInputRate(job[j]) = 16000

\* the jobs that have been started work on pairwise different audio files
DifferentSources ==
    \A j, k \in DOMAIN job :
        (j # k /\ job[j].pc # "idle" /\ job[k].pc # "idle")
            => AudioPath(job[j].source) # AudioPath(job[k].source)

\* C21: jobs on different sources are independent: while the engine
\* subprocess of a job runs, a step of another job leaves the job as it is
\* and leaves its subprocess the one that cancel() kills.
C21_JobsIndependent ==
    [][\A k \in DOMAIN job :
          (/\ DifferentSources'
           /\ job[k].proc = "running"
           /\ currentProcess = k
           /\ job'[k].pc = job[k].pc
           /\ job'[k].cancelled = job[k].cancelled)
              => (job'[k] = job[k] /\ currentProcess' = k)]_vars

\* C22: two jobs on different sources never use the same temp wav path.
C22_TempWavExclusive ==
    \A j, k \in DOMAIN job :
        (/\ j # k
         /\ AudioPath(job[j].source) # AudioPath(job[k].source)
         /\ job[j].pc \in {"converting", "whisper"}
         /\ job[k].pc \in {"converting", "whisper"}
         /\ job[j].wavPath \in TempWavPaths
         /\ job[k].wavPath \in TempWavPaths)
            => job[j].wavPath # job[k].wavPath

Min(a, b) == IF a < b THEN a ELSE b

\* C27: the recent list never holds more than maxRecentTranscriptions entries
\* and is always the most recently recorded entries, newest first: recording
\* beyond the maximum evicts the oldest.
C27_RecentListBounded ==
    /\ Len(settings.recentTranscriptions) <= settings.maxRecentTranscriptions
    /\ settings.recentTranscriptions =
          SubSeq(recordLog, 1, Min(Len(recordLog), settings.maxRecentTranscriptions))

C27_Witness ==
    /\ Len(recordLog) > settings.maxRecentTranscriptions
    /\ Len(settings.recentTranscriptions) = settings.maxRecentTranscriptions

\* C36: a transcription document that exists is changed only by the save of a
\* job for which the user confirmed the overwrite; any other existing document
\* is never changed.
C36_OverwriteOnlyIfConfirmed ==
    [][\A p \in MdPaths :
          (vaultDoc[p].kind # "none" /\ vaultDoc'[p] # vaultDoc[p])
              => \E j \in Jobs :
                    /\ job[j].pc = "saving_doc"
                    /\ MdPath(job[j].source) = p
                    /\ job[j].confirmed
                    /\ vaultDoc[p].kind = "transcription"
                    /\ vaultDoc'[p] = [kind |-> "transcription", by |-> j]]_vars

C36_Witness ==
    \E j \in Jobs :
        /\ job[j].confirmed
        /\ job[j].pc \in {"saving_recent", "opening", "complete"}
        /\ vaultDoc[MdPath(job[j].source)] = [kind |-> "transcription", by |-> j]

\* C33: complete, failed and cancelled are terminal: a job that the progress
\* modal has marked complete never becomes failed or cancelled, and a job in
\* a terminal state stays in it with the same reported error.
C33_TerminalStatesFinal ==
    [][\A j \in Jobs :
          /\ job[j].step = "complete" => job'[j].pc \notin {"failed", "cancelled"}
          /\ Terminal(job[j].pc)
                => (job'[j].pc = job[j].pc /\ job'[j].error = job[j].error)]_vars

\* C39: a job that has ended failed (or cancelled) has left no document and
\* no recent-list entry behind: both exist only for a job that ends complete.
C39_OutcomeMatchesPersisted ==
    \A j \in Jobs :
        job[j].pc \in {"failed", "cancelled"}
            => (~job[j].doc.exists /\ ~job[j].recorded)

\* C34: the progress reported during a local transcription never decreases,
\* is below 100 while the conversion or the engine is running, and is 100
\* only when the engine has succeeded.
C34_ProgressMonotone ==
    \A j \in Jobs :
        /\ job[j].progress = job[j].progressMax
        /\ job[j].pc \in {"ffmpeg_check", "converting", "whisper"} => job[j].progress < 100
        /\ job[j].progress = 100 => job[j].transcript # "none"

\* every segment of the output has a start time and the start times do not
\* decrease: the engine emits its segments in the order of the recording
WellFormed(output) ==
    /\ \A i \in 1..Len(output) : output[i].start # Missing
    /\ \A i \in 1..Len(output) - 1 : output[i].start <= output[i + 1].start

C9_TempGoneAfterFailedAttempt ==
    [][\A c \in Calls :
          (/\ InAttempt(dl[c].pc)
           /\ dl'[c].pc \in {"backoff", "done"}
           /\ dl'[c].lastError # "none")
              => ~fs'[TempPath(dl[c].size)].exists]_vars

\* C10: once the user has cancelled a call's download, the call starts no
\* further attempt.
C10_CancelledNeverRetried ==
    [][\A c \in Calls :
          (dl[c].userCancelled /\ dl[c].pc # "idle")
              => /\ dl'[c].attempt <= dl[c].attempt
                 /\ dl'[c].pc = "preflight" => dl[c].pc = "preflight"
                 /\ dl'[c].pc # "backoff"]_vars

C10_Witness ==
    \E c \in Calls :
        /\ dl[c].userCancelled
        /\ dl[c].pc = "done"
        /\ dl[c].outcome = ErrCancelled
        /\ dl[c].attempt = 0

\* C11: a call on which the user has clicked "Cancel Download" ends with the
\* cancellation error, never with success or another error.
C11_CancelEndsWithCancellation ==
    \A c \in Calls :
        (dl[c].userCancelled /\ dl[c].pc = "done") => dl[c].outcome = ErrCancelled

\* C12: an attempt that has failed with HTTP 404 is not followed by a retry:
\* the call never waits in the back-off of the retry loop after a 404.
C12_NotFoundNeverRetried ==
    \A c \in Calls : dl[c].pc = "backoff" => dl[c].lastError # ErrHttp404

\* C13: a step in which a call ends with success is a step that moves the
\* downloaded temporary file to the final path.
C13_SuccessOnlyIfMoved ==
    [][\A c \in Calls :
          (dl[c].pc # "done" /\ dl'[c].pc = "done" /\ dl'[c].outcome = "ok")
              => /\ fs[TempPath(dl[c].size)].exists
                 /\ fs'[ModelPath(dl[c].size)] = fs[TempPath(dl[c].size)]
                 /\ ~fs'[TempPath(dl[c].size)].exists]_vars

\* C14: the final path never goes from holding a complete model to holding
\* anything else (nothing, or a partial file).
C14_ReplaceIsAtomic ==
    [][\A s \in ModelSizes :
          IsComplete(fs[ModelPath(s)]) => IsComplete(fs'[ModelPath(s)])]_vars

\* C15: a call made while the model is installed and complete ends, however
\* it ends, with a complete model installed.
C15_Idempotent ==
    \A c \in Calls :
        (dl[c].pc = "done" /\ dl[c].installedAtStart)
            => IsComplete(fs[ModelPath(dl[c].size)])

\* the transfers that hold an open write stream on the temp file of size s
Sessions(s) ==
    {c \in Calls : dl[c].size = s /\ dl[c].pc = "streaming" /\ dl[c].writeStream = "open"}

\* C16: per model size at most one transfer is writing at any moment, the
\* transfers left behind by rejected attempts included.
C16_OneSessionPerSize ==
    \A s \in ModelSizes :
        Cardinality(Sessions(s)) + (IF orphans[s].st = "streaming" THEN 1 ELSE 0) <= 1


\* C28: a call whose body is being received is never failed with the
\* connection-timeout error: no step takes a streaming call to its back-off or
\* its end with that error.
C28_NoConnTimeoutWhileStreaming ==
    [][\A c \in Calls :
          dl[c].pc = "streaming"
              => ~(/\ dl'[c].pc \in {"backoff", "done"}
                   /\ dl'[c].lastError = ErrConnTimeout)]_vars

\* C29: when the connection timeout or the stall timeout has rejected an
\* attempt, the transfer is cancelled: the step that surfaces the error leaves
\* no request of the attempt receiving and writing behind.
C29_TimeoutCancelsTransfer ==
    [][\A c \in Calls :
          (/\ InAttempt(dl[c].pc)
           /\ dl'[c].pc \in {"backoff", "done"}
           /\ dl'[c].lastError \in {ErrConnTimeout, ErrStalled}
           /\ orphans[dl[c].size].st = "none")
              => orphans'[dl[c].size].st = "none"]_vars

\* the preflight request of the attempt did not get a success response
PreflightFailed(c) == dl[c].probe \in {"response_error", "error", "timeout"}

\* C30: if the preflight request fails (no answer, or an answer with an error
\* status), the attempt ends before any transfer request is issued, and the
\* 'cannot reach' diagnostic is kept for the unreachable network.
C30_PreflightFailsFast ==
    \A c \in Calls :
        PreflightFailed(c)
            => /\ dl[c].pc \notin {"connecting", "streaming", "finalizing", "move_wait"}
               /\ dl[c].lastError = ErrCannotReach => dl[c].probe # "response_error"


\* C31: a downloadModel call makes at most MaxRetries attempts, a new attempt
\* starts only from the back-off of the previous one, a call that ends with an
\* error other than a cancellation has used all its attempts and raises the
\* error of the last one, and every call in flight ends.
C31_BoundedAttemptsAndTermination ==
    /\ [](\A c \in Calls :
            /\ dl[c].attempt < MaxRetries
            /\ (dl[c].pc = "done" /\ dl[c].outcome \notin {"ok", ErrAlreadyInProgress}
                   /\ ~IsCancellation(dl[c].outcome))
                  => (dl[c].attempt = MaxRetries - 1 /\ dl[c].outcome = dl[c].lastError))
    /\ [][\A c \in Calls :
            dl'[c].attempt > dl[c].attempt
                => (dl[c].pc = "backoff" /\ dl'[c].attempt = dl[c].attempt + 1)]_vars
    /\ \A c \in LiveCalls : Active(c) ~> (dl[c].pc = "done")

C31_Witness ==
    \E c \in Calls :
        /\ dl[c].pc = "done"
        /\ dl[c].attempt = MaxRetries - 1
        /\ dl[c].outcome = ErrStalled
        /\ dl[c].lastError = ErrStalled


\* C32: a download follows at most MaxRedirects redirects: a redirect answered
\* to a request that less than MaxRedirects redirects led to is followed by a
\* new request, and the too-many-redirects error is raised exactly for the
\* redirect that comes after MaxRedirects of them.
C32_RedirectsBounded ==
    /\ [](\A c \in Calls : dl[c].redirectCount <= MaxRedirects)
    /\ [][\A c \in Calls :
            /\ dl'[c].redirectCount > dl[c].redirectCount
                  => /\ dl'[c].redirectCount = dl[c].redirectCount + 1
                     /\ dl[c].pc = "connecting" /\ dl'[c].pc = "connecting"
            /\ (dl[c].lastError # ErrTooManyRedirects
                   /\ dl'[c].lastError = ErrTooManyRedirects)
                  => /\ dl[c].pc = "connecting"
                     /\ dl[c].redirectCount = MaxRedirects
                     /\ dl'[c].pc \in {"backoff", "done"}]_vars

C32_Witness ==
    \E c \in Calls :
        /\ dl[c].pc = "connecting"
        /\ dl[c].redirectCount = MaxRedirects


\* C37: a model size is marked as in progress exactly while a call for it is
\* in flight: when a call has ended, by success, by failure or by
\* cancellation, its size is no longer marked, and a call is rejected as
\* already in progress only while another call for the size is in flight.
C37_MarkerClearedAtEnd ==
    /\ downloadsInProgress = {dl[c].size : c \in {k \in Calls : Active(k)}}
    /\ \A c \in Calls :
         (dl[c].pc = "done" /\ dl[c].outcome = ErrAlreadyInProgress)
            => \E k \in Calls : k # c /\ Active(k) /\ dl[k].size = dl[c].size

C37_Witness ==
    \E c \in Calls :
        /\ dl[c].pc = "done"
        /\ dl[c].outcome = ErrCancelled
        /\ dl[c].size \notin downloadsInProgress

\* C38: the step in which a call is rejected as already in progress changes
\* nothing but the rejected call: the in-progress set, the files, the other
\* calls, the ownerless transfers and the modals stay as they are.
C38_RejectedCallNoEffect ==
    [][\A c \in Calls :
          (dl[c].pc = "idle" /\ dl'[c].pc = "done"
             /\ dl'[c].outcome = ErrAlreadyInProgress)
              => /\ downloadsInProgress' = downloadsInProgress
                 /\ fs' = fs
                 /\ orphans' = orphans
                 /\ staleModals' = staleModals
                 /\ \A k \in Calls \ {c} : dl'[k] = dl[k]]_vars

C38_Witness ==
    \E c, k \in Calls :
        /\ dl[c].pc = "done"
        /\ dl[c].outcome = ErrAlreadyInProgress
        /\ dl[k].pc = "streaming"
        /\ dl[k].size = dl[c].size
        /\ dl[k].received > 0
        /\ dl[k].size \in downloadsInProgress

====
